---- MODULE Spec2Model ----
(***************************************************************************)
(* Model of TemplateForecaster (src/main.py): the research dispatcher      *)
(* behind the class-wide asyncio.Semaphore, and the three forecast         *)
(* operations that invoke the model and hand its text to an extractor.     *)
(* Tasks are asyncio tasks: one action is what a task does between two     *)
(* suspension points of the cooperative scheduler.                         *)
(***************************************************************************)
EXTENDS Integers, Sequences, FiniteSets, TLC

\* ------------------------------------------------------------------ bounds
NumTasks == 4
\* longest model text, in tokens, for a binary question
MaxTokens == 3
\* longest model text, in lines, for a multiple-choice question
MaxOptLines == 3
\* longest model text, in lines, for a numeric question
MaxPtileLines == 2
\* most percentile points of a model text that declares each percentile once
MaxCurvePoints == 4

Tasks == 1..NumTasks

\* ------------------------------------------------------- program constants
\* _max_concurrent_questions = 2
MaxConcurrentQuestions == 2

Credentials ==
    {"ASKNEWS_CLIENT_ID", "ASKNEWS_SECRET", "EXA_API_KEY",
     "PERPLEXITY_API_KEY", "OPENROUTER_API_KEY"}

Providers == {"AskNews", "Exa", "Perplexity", "OpenRouter"}

\* research has not been assigned by run_research (no return value exists)
NoResult == "<unset>"

\* the text a provider call returns
ProviderText(p) == "brief from " \o p

VARIABLES
    env,        \* the set of credential variables os.getenv finds non-empty
    value,      \* _concurrency_limiter._value
    waiters,    \* _concurrency_limiter._waiters, oldest first
    pc,         \* position of each task
    calls,      \* providers each task has called, in call order
    raised,     \* tasks whose provider call raised
    research,   \* value run_research returned to each task
    log,        \* records each task handed to logger, in order
    question,   \* the question each task forecasts
    prompt,     \* the values each task put into its forecast prompt, in
                \* prompt order (<<>> before the prompt is built)
    reasoning,  \* the text model.invoke returned to each task (<<>> before)
    result      \* <<ReasonedPrediction>> once a forecast returned, else <<>>

vars == <<env, value, waiters, pc, calls, raised, research, log,
          question, prompt, reasoning, result>>

researchVars == <<env, value, waiters, calls, raised, research>>
forecastVars == <<question, prompt, reasoning, result>>

\* ------------------------------------------------- asyncio.Semaphore state
\* A waiter's future is done once release() has handed it a permit
\* (pc = "woken"); it stays in _waiters until the waiter resumes.

\* locked() with the test of _value left out
LockedIgnoresValue(s) == s.waiters # <<>>

\* Semaphore.locked(): no permit, or somebody is queued
Locked(s) == s.value = 0 \/ s.waiters # <<>>

\* Semaphore._wake_up_next(): hand a permit to the first waiter not yet woken
PendingWaiters(s) == {i \in 1..Len(s.waiters) : s.pc[s.waiters[i]] = "waiting"}

\* _wake_up_next() handing the permit to the waiter queued last
WakeUpLast(s) ==
    IF PendingWaiters(s) = {}
    THEN s
    ELSE LET i == CHOOSE j \in PendingWaiters(s) :
                     \A k \in PendingWaiters(s) : j >= k
         IN  [s EXCEPT !.value = s.value - 1,
                       !.pc = [s.pc EXCEPT ![s.waiters[i]] = "woken"]]

WakeUpNext(s) ==
    IF PendingWaiters(s) = {}
    THEN s
    ELSE LET i == CHOOSE j \in PendingWaiters(s) :
                     \A k \in PendingWaiters(s) : j <= k
         IN  [s EXCEPT !.value = s.value - 1,
                       !.pc = [s.pc EXCEPT ![s.waiters[i]] = "woken"]]

\* Semaphore.release(), called by __aexit__ of `async with`
Release(s) == WakeUpNext([s EXCEPT !.value = s.value + 1])

\* the `while self._value > 0: if not self._wake_up_next(): break` loop that
\* ends acquire()
RECURSIVE WakeWhilePermits(_)
WakeWhilePermits(s) ==
    IF s.value > 0 /\ PendingWaiters(s) # {}
    THEN WakeWhilePermits(WakeUpNext(s))
    ELSE s

\* removal of task t's future from _waiters
RemoveWaiter(w, t) == SelectSeq(w, LAMBDA u : u # t)

Sem == [value |-> value, waiters |-> waiters, pc |-> pc]

\* ------------------------------------------------------ research dispatch
\* the chain with `or` for `and` in the AskNews test
SelectProviderEitherCredential(e) ==
    IF "ASKNEWS_CLIENT_ID" \in e \/ "ASKNEWS_SECRET" \in e THEN "AskNews"
    ELSE IF "EXA_API_KEY" \in e THEN "Exa"
    ELSE IF "PERPLEXITY_API_KEY" \in e THEN "Perplexity"
    ELSE IF "OPENROUTER_API_KEY" \in e THEN "OpenRouter"
    ELSE "none"

\* the if/elif chain of run_research
SelectProvider(e) ==
    IF "ASKNEWS_CLIENT_ID" \in e /\ "ASKNEWS_SECRET" \in e THEN "AskNews"
    ELSE IF "EXA_API_KEY" \in e THEN "Exa"
    ELSE IF "PERPLEXITY_API_KEY" \in e THEN "Perplexity"
    ELSE IF "OPENROUTER_API_KEY" \in e THEN "OpenRouter"
    ELSE "none"

\* the body with an else branch that raises instead of returning ""
DispatchRaisesWithoutProvider(t, s) ==
    LET p == SelectProvider(env) IN
    IF p # "none"
    THEN /\ value' = s.value
         /\ waiters' = s.waiters
         /\ pc' = [s.pc EXCEPT ![t] = "calling"]
         /\ calls' = [calls EXCEPT ![t] = Append(@, p)]
         /\ UNCHANGED <<research, log>>
    ELSE LET r == Release([s EXCEPT !.pc[t] = "research_failed"]) IN
         /\ value' = r.value
         /\ waiters' = r.waiters
         /\ pc' = r.pc
         /\ UNCHANGED <<calls, research, log>>

\* the body of `async with`, run by task t holding a permit in semaphore
\* state s, up to the first suspension (the provider call) or, when no
\* provider is configured, to the return (which releases the permit)
Dispatch(t, s) ==
    LET p == SelectProvider(env) IN
    IF p # "none"
    THEN /\ value' = s.value
         /\ waiters' = s.waiters
         /\ pc' = [s.pc EXCEPT ![t] = "calling"]
         /\ calls' = [calls EXCEPT ![t] = Append(@, p)]
         /\ UNCHANGED <<research, log>>
    ELSE LET r == Release([s EXCEPT !.pc[t] = "researched"]) IN
         /\ value' = r.value
         /\ waiters' = r.waiters
         /\ pc' = r.pc
         /\ research' = [research EXCEPT ![t] = ""]
         /\ log' = [log EXCEPT ![t] = @ \o <<[level |-> "warning",
                                              what |-> "no research provider",
                                              detail |-> <<>>],
                                             [level |-> "info",
                                              what |-> "research",
                                              detail |-> <<"">>]>>]
         /\ UNCHANGED calls

\* run_research called, the gate is free: acquire() returns at once
RunResearch(t) ==
    /\ pc[t] = "start"
    /\ ~Locked(Sem)
    /\ Dispatch(t, [Sem EXCEPT !.value = value - 1])
    /\ UNCHANGED <<env, raised, forecastVars>>

\* run_research called, the gate is locked: acquire() queues a future
WaitForSlot(t) ==
    /\ pc[t] = "start"
    /\ Locked(Sem)
    /\ waiters' = Append(waiters, t)
    /\ pc' = [pc EXCEPT ![t] = "waiting"]
    /\ UNCHANGED <<env, value, calls, raised, research, log, forecastVars>>

\* The event loop runs the callbacks of done futures in the order the
\* futures were completed: of the woken waiters, the one woken first (the
\* one nearest the front of _waiters) resumes first.
ReadyFirst(t) ==
    \A i, j \in 1..Len(waiters) :
        (waiters[j] = t /\ pc[waiters[i]] = "woken") => j <= i

\* a woken waiter resumes inside acquire() and enters the body
ResumeWithSlot(t) ==
    /\ pc[t] = "woken"
    /\ ReadyFirst(t)
    /\ Dispatch(t, WakeWhilePermits(
                     [Sem EXCEPT !.waiters = RemoveWaiter(waiters, t)]))
    /\ UNCHANGED <<env, raised, forecastVars>>

\* the provider call returns: log, return, release
ProviderReturns(t) ==
    /\ pc[t] = "calling"
    /\ LET text == ProviderText(calls[t][Len(calls[t])])
           r == Release([Sem EXCEPT !.pc[t] = "researched"])
       IN  /\ research' = [research EXCEPT ![t] = text]
           /\ log' = [log EXCEPT ![t] = Append(@, [level |-> "info",
                                                   what |-> "research",
                                                   detail |-> <<text>>])]
           /\ value' = r.value
           /\ waiters' = r.waiters
           /\ pc' = r.pc
    /\ UNCHANGED <<env, calls, raised, forecastVars>>

\* the provider call raises and the exception is swallowed: run_research
\* returns the empty string
ProviderRaisesSwallowed(t) ==
    /\ pc[t] = "calling"
    /\ LET r == Release([Sem EXCEPT !.pc[t] = "researched"])
       IN  /\ value' = r.value
           /\ waiters' = r.waiters
           /\ pc' = r.pc
    /\ raised' = raised \cup {t}
    /\ research' = [research EXCEPT ![t] = ""]
    /\ UNCHANGED <<env, calls, log, forecastVars>>

\* the provider call raises and the exception leaves run_research with the
\* permit still held
ProviderRaisesKeepsSlot(t) ==
    /\ pc[t] = "calling"
    /\ pc' = [pc EXCEPT ![t] = "research_failed"]
    /\ raised' = raised \cup {t}
    /\ UNCHANGED <<env, value, waiters, calls, research, log, forecastVars>>

\* the provider call raises: nothing catches it, __aexit__ releases
ProviderRaises(t) ==
    /\ pc[t] = "calling"
    /\ LET r == Release([Sem EXCEPT !.pc[t] = "research_failed"])
       IN  /\ value' = r.value
           /\ waiters' = r.waiters
           /\ pc' = r.pc
    /\ raised' = raised \cup {t}
    /\ UNCHANGED <<env, calls, research, log, forecastVars>>

\* ---------------------------------------------------------------- numbers
\* Python floats are modelled as exact fractions in lowest terms.
RECURSIVE GCD(_, _)
GCD(a, b) == IF b = 0 THEN a ELSE GCD(b, a % b)

Rat(n, d) == LET g == GCD(n, d) IN [n |-> n \div g, d |-> d \div g]

RatLE(a, b) == a.n * b.d <= b.n * a.d
RatLT(a, b) == a.n * b.d < b.n * a.d
RatMax(a, b) == IF RatLE(a, b) THEN b ELSE a
RatMin(a, b) == IF RatLE(a, b) THEN a ELSE b
RatAdd(a, b) == Rat(a.n * b.d + b.n * a.d, a.d * b.d)
RatDiv(a, b) == Rat(a.n * b.d, a.d * b.n)

RECURSIVE RatSum(_)
RatSum(seq) ==
    IF seq = <<>> THEN Rat(0, 1) ELSE RatAdd(Head(seq), RatSum(Tail(seq)))

\* ------------------------------------------------------------ model text
\* The text model.invoke returns, as the sequence of its tokens:
\*   Word        words holding no number
\*   Num(n)      the number n, no percent sign after it
\*   Pct(n)      "n%", as in "Probability: n%"
\*   Opt(l, n)   the line "l: n%"
\*   Ptile(q, v) the line "Percentile q: v"
\*   BadPtile(q) the line "Percentile q: " followed by a malformed number
Word == [kind |-> "word", label |-> "", p |-> 0, num |-> 0]
Num(n) == [kind |-> "num", label |-> "", p |-> 0, num |-> n]
Pct(n) == [kind |-> "pct", label |-> "", p |-> 0, num |-> n]
Opt(l, n) == [kind |-> "opt", label |-> l, p |-> 0, num |-> n]
Ptile(q, v) == [kind |-> "ptile", label |-> "", p |-> q, num |-> v]
BadPtile(q) == [kind |-> "badptile", label |-> "", p |-> q, num |-> 0]

SeqsUpTo(S, n) == UNION {[1..k -> S] : k \in 0..n}

\* --------------------------------------------------- Percentage Extractor
\* every "number followed by a percent sign", in document order
PercentageMatches(text) ==
    SelectSeq(text, LAMBDA k : k.kind \in {"pct", "opt"})

Clamp(x, lo, hi) == RatMin(hi, RatMax(lo, x))

\* the extractor taking the first match instead of the last
ExtractFirstPercentageValue(text, max_prediction, min_prediction) ==
    LET m == PercentageMatches(text) IN
    IF m = <<>>
    THEN [ok |-> FALSE]
    ELSE [ok |-> TRUE,
          value |-> Clamp(Rat(m[1].num, 100),
                          min_prediction, max_prediction)]

\* PredictionExtractor.extract_last_percentage_value
ExtractLastPercentageValue(text, max_prediction, min_prediction) ==
    LET m == PercentageMatches(text) IN
    IF m = <<>>
    THEN [ok |-> FALSE]
    ELSE [ok |-> TRUE,
          value |-> Clamp(Rat(m[Len(m)].num, 100),
                          min_prediction, max_prediction)]

\* --------------------------------------------------- Option-List Extractor
\* the floor probability
FloorEpsilon == Rat(1, 1000)

\* label normalisation: case-insensitive, whitespace-trimmed
NormalizeLabel(l) ==
    CASE l \in {"Red", " RED "} -> "red"
      [] l = "Green" -> "green"
      [] l = "Blue" -> "blue"
      [] OTHER -> l

\* step 1: the `label: percentage` lines of the text
ScanOptionLines(text) == SelectSeq(text, LAMBDA k : k.kind = "opt")

\* step 2: the scanned lines naming a canonical option
LinesFor(scanned, option) ==
    SelectSeq(scanned,
              LAMBDA k : NormalizeLabel(k.label) = NormalizeLabel(option))

\* the extractor listing the options in the order the text names them
ExtractOptionListInTextOrder(text, options, lenient) ==
    LET scanned == ScanOptionLines(text)
        total == RatSum([i \in 1..Len(scanned) |-> Rat(scanned[i].num, 100)])
    IN
    IF scanned = <<>> \/ total.n = 0 THEN [ok |-> FALSE]
    ELSE [ok |-> TRUE,
          value |-> [i \in 1..Len(scanned) |->
                       [option_name |-> scanned[i].label,
                        probability |->
                            RatDiv(Rat(scanned[i].num, 100), total)]]]

\* PredictionExtractor.extract_option_list_with_percentage_afterwards;
\* lenient chooses between the two policies for an option the text omits
ExtractOptionList(text, options, lenient) ==
    LET scanned == ScanOptionLines(text)
        I == 1..Len(options)
        hit(i) == LinesFor(scanned, options[i])
    IN
    IF scanned = <<>> THEN [ok |-> FALSE]
    ELSE IF ~lenient /\ \E i \in I : hit(i) = <<>> THEN [ok |-> FALSE]
    ELSE
    LET raw == [i \in I |-> IF hit(i) = <<>>
                            THEN FloorEpsilon
                            ELSE Rat(hit(i)[Len(hit(i))].num, 100)]
        total == RatSum(raw)
    IN
    \* a zero total cannot be rescaled: the division raises
    IF total.n = 0 THEN [ok |-> FALSE]
    ELSE
    LET normalized == [i \in I |-> RatDiv(raw[i], total)]
        floored == [i \in I |-> RatMax(normalized[i], FloorEpsilon)]
        total2 == RatSum(floored)
    IN  [ok |-> TRUE,
         value |-> [i \in I |->
                      [option_name |-> options[i],
                       probability |-> RatDiv(floored[i], total2)]]]

\* ----------------------------------------------------- Percentile Extractor
\* fewest points a distribution can be built from
MinPercentilePoints == 2

\* steps 1, 2: the well-formed `Percentile p: value` lines
ScanPercentileLines(text) == SelectSeq(text, LAMBDA k : k.kind = "ptile")

RECURSIVE SortAscending(_)
SortAscending(S) ==
    IF S = {} THEN <<>>
    ELSE LET m == CHOOSE x \in S : \A y \in S : x <= y
         IN  <<m>> \o SortAscending(S \ {m})

\* the value declared for percentile q (the last line naming it)
DeclaredValue(scanned, q) ==
    LET h == SelectSeq(scanned, LAMBDA k : k.p = q) IN h[Len(h)].num

\* step 3 left out: the declared values as they are
NoRepair(vs) == vs

\* step 3: raise a value below its predecessor to the predecessor
RECURSIVE RepairMonotonic(_)
RepairMonotonic(vs) ==
    IF Len(vs) <= 1 THEN vs
    ELSE LET front == RepairMonotonic(SubSeq(vs, 1, Len(vs) - 1))
             prev == front[Len(front)]
             last == vs[Len(vs)]
         IN  Append(front, IF last < prev THEN prev ELSE last)

\* step 4: clip to the closed bounds of the question
ClipToBounds(v, q) ==
    LET hi == IF ~q.open_upper_bound /\ v > q.upper_bound
              THEN q.upper_bound ELSE v
    IN  IF ~q.open_lower_bound /\ hi < q.lower_bound
        THEN q.lower_bound ELSE hi

\* PredictionExtractor.
\*   extract_numeric_distribution_from_list_of_percentile_number_and_probability
ExtractNumericDistribution(text, q) ==
    LET scanned == ScanPercentileLines(text)
        ps == SortAscending({scanned[i].p : i \in 1..Len(scanned)})
    IN
    IF Len(ps) < MinPercentilePoints THEN [ok |-> FALSE]
    ELSE
    LET declared == [i \in 1..Len(ps) |-> DeclaredValue(scanned, ps[i])]
        repaired == RepairMonotonic(declared)
    IN  [ok |-> TRUE,
         value |-> [declared_percentiles |->
                        [i \in 1..Len(ps) |->
                            [percentile |-> ps[i],
                             value |-> ClipToBounds(repaired[i], q)]],
                    open_upper_bound |-> q.open_upper_bound,
                    open_lower_bound |-> q.open_lower_bound,
                    upper_bound |-> q.upper_bound,
                    lower_bound |-> q.lower_bound]]

\* -------------------------------------------------------------- questions
BinaryQuestion ==
    [variant |-> "binary", options |-> <<>>,
     open_upper_bound |-> TRUE, open_lower_bound |-> TRUE,
     upper_bound |-> 0, lower_bound |-> 0]

MultipleChoiceQuestion(options) ==
    [variant |-> "multiple_choice", options |-> options,
     open_upper_bound |-> TRUE, open_lower_bound |-> TRUE,
     upper_bound |-> 0, lower_bound |-> 0]

NumericQuestion(open_upper, open_lower) ==
    [variant |-> "numeric", options |-> <<>>,
     open_upper_bound |-> open_upper, open_lower_bound |-> open_lower,
     upper_bound |-> 100, lower_bound |-> 4]

OptionLists == {<<"Red", "Green", "Blue">>, <<"Green", "Red">>}

Questions ==
    {BinaryQuestion}
    \cup {MultipleChoiceQuestion(o) : o \in OptionLists}
    \cup {NumericQuestion(u, l) : u \in BOOLEAN, l \in BOOLEAN}

\* ------------------------------------------------- texts the model returns
PctValues == {0, 30, 37, 62, 100, 150}
BinaryTokens ==
    {Word} \cup {Num(n) : n \in PctValues} \cup {Pct(n) : n \in PctValues}

TextLabels == {"Red", " RED ", "Green", "Blue"}
OptPcts == {0, 20, 30, 50}
OptionTokens == {Word} \cup {Opt(l, n) : l \in TextLabels, n \in OptPcts}

Percentiles == {10, 50, 90}
PtileValues == {3, 5, 150}
PercentileTokens ==
    {Word} \cup {BadPtile(q) : q \in Percentiles}
    \cup {Ptile(q, v) : q \in Percentiles, v \in PtileValues}

\* for each length k, the texts of k percentile lines that declare each
\* percentile once, in any order
CurvePercentiles == {10, 20, 50, 70, 90}
CurveValues == {3, 5, 8, 10}
CurveTexts ==
    [k \in 0..MaxCurvePoints |->
        {[i \in 1..k |-> Ptile(ps[i], vs[i])] :
            ps \in {f \in [1..k -> CurvePercentiles] :
                       \A i, j \in 1..k : i # j => f[i] # f[j]},
            vs \in [1..k -> CurveValues]}]

Texts(q) ==
    CASE q.variant = "binary" -> SeqsUpTo(BinaryTokens, MaxTokens)
      [] q.variant = "multiple_choice" -> SeqsUpTo(OptionTokens, MaxOptLines)
      [] q.variant = "numeric" -> SeqsUpTo(PercentileTokens, MaxPtileLines)

\* one well-formed and one unparsable answer per question
SampleTexts(q) ==
    {<<Word>>,
     CASE q.variant = "binary" -> <<Word, Pct(37)>>
       [] q.variant = "multiple_choice" ->
            [i \in 1..Len(q.options) |-> Opt(q.options[i], 50)]
       [] q.variant = "numeric" -> <<Ptile(10, 5), Ptile(90, 150)>>}

\* ------------------------------------------------------ forecast operations
\* the pair with the lower message first
CreateUpperAndLowerBoundMessagesSwapped(q) ==
    LET upper_bound_message ==
            IF q.open_upper_bound THEN ""
            ELSE "The outcome can not be higher than "
                    \o ToString(q.upper_bound) \o "."
        lower_bound_message ==
            IF q.open_lower_bound THEN ""
            ELSE "The outcome can not be lower than "
                    \o ToString(q.lower_bound) \o "."
    IN  <<lower_bound_message, upper_bound_message>>

\* _create_upper_and_lower_bound_messages
CreateUpperAndLowerBoundMessages(q) ==
    LET upper_bound_message ==
            IF q.open_upper_bound THEN ""
            ELSE "The outcome can not be higher than "
                    \o ToString(q.upper_bound) \o "."
        lower_bound_message ==
            IF q.open_lower_bound THEN ""
            ELSE "The outcome can not be lower than "
                    \o ToString(q.lower_bound) \o "."
    IN  <<upper_bound_message, lower_bound_message>>

\* the values the forecast operation of question q puts into its prompt, in
\* the order they appear there: the research, then for a numeric question
\* {lower_bound_message} and {upper_bound_message}
BuildPrompt(q, r) ==
    IF q.variant = "numeric"
    THEN LET messages == CreateUpperAndLowerBoundMessages(q)
             upper_bound_message == messages[1]
             lower_bound_message == messages[2]
         IN  <<r, lower_bound_message, upper_bound_message>>
    ELSE <<r>>

\* ForecastBot hands the research to the forecast operation of the
\* question's variant, which builds its prompt and awaits model.invoke
StartForecast(t) ==
    /\ pc[t] = "researched"
    /\ prompt' = [prompt EXCEPT ![t] = BuildPrompt(question[t], research[t])]
    /\ pc' = [pc EXCEPT ![t] = "invoking"]
    /\ UNCHANGED <<researchVars, log, question, reasoning, result>>

\* model.invoke raises: nothing catches it
ModelRaises(t) ==
    /\ pc[t] = "invoking"
    /\ pc' = [pc EXCEPT ![t] = "invoke_failed"]
    /\ UNCHANGED <<researchVars, log, forecastVars>>

\* the continuation with a placeholder prediction for an extractor error
FinishForecastWithDefault(t, text, e) ==
    LET v == IF e.ok THEN e.value ELSE Rat(1, 2) IN
    /\ reasoning' = [reasoning EXCEPT ![t] = text]
    /\ log' = [log EXCEPT ![t] =
                 Append(@, [level |-> "info", what |-> "forecast",
                            detail |-> <<v, text>>])]
    /\ result' = [result EXCEPT ![t] =
                    <<[prediction_value |-> v, reasoning |-> text]>>]
    /\ pc' = [pc EXCEPT ![t] = "done"]
    /\ UNCHANGED <<researchVars, question, prompt>>

\* the continuation returning the reasoning without its final line
FinishForecastTruncated(t, text, e) ==
    /\ reasoning' = [reasoning EXCEPT ![t] = text]
    /\ IF e.ok
       THEN /\ log' = [log EXCEPT ![t] =
                         Append(@, [level |-> "info", what |-> "forecast",
                                    detail |-> <<e.value, text>>])]
            /\ result' = [result EXCEPT ![t] =
                            <<[prediction_value |-> e.value,
                               reasoning |-> SubSeq(text, 1, Len(text) - 1)]>>]
            /\ pc' = [pc EXCEPT ![t] = "done"]
       ELSE /\ pc' = [pc EXCEPT ![t] = "extract_failed"]
            /\ UNCHANGED <<log, result>>
    /\ UNCHANGED <<researchVars, question, prompt>>

\* what follows `reasoning = await ...invoke(prompt)` in each of the three
\* operations, e being the outcome of the extractor call: an extractor
\* error propagates, else logger.info and return ReasonedPrediction(...)
FinishForecast(t, text, e) ==
    /\ reasoning' = [reasoning EXCEPT ![t] = text]
    /\ IF e.ok
       THEN /\ log' = [log EXCEPT ![t] =
                         Append(@, [level |-> "info", what |-> "forecast",
                                    detail |-> <<e.value, text>>])]
            /\ result' = [result EXCEPT ![t] =
                            <<[prediction_value |-> e.value,
                               reasoning |-> text]>>]
            /\ pc' = [pc EXCEPT ![t] = "done"]
       ELSE /\ pc' = [pc EXCEPT ![t] = "extract_failed"]
            /\ UNCHANGED <<log, result>>
    /\ UNCHANGED <<researchVars, question, prompt>>

\* _run_forecast_on_binary, from the return of model.invoke with one of
\* `texts`
RunForecastOnBinary(t, texts) ==
    /\ pc[t] = "invoking"
    /\ question[t].variant = "binary"
    /\ \E text \in texts :
          FinishForecast(t, text,
              ExtractLastPercentageValue(text, Rat(1, 1), Rat(0, 1)))

\* _run_forecast_on_multiple_choice, from the return of model.invoke
RunForecastOnMultipleChoice(t, texts) ==
    /\ pc[t] = "invoking"
    /\ question[t].variant = "multiple_choice"
    /\ \E text \in texts, lenient \in BOOLEAN :
          FinishForecast(t, text,
              ExtractOptionList(text, question[t].options, lenient))

\* _run_forecast_on_numeric, from the return of model.invoke
RunForecastOnNumeric(t, texts) ==
    /\ pc[t] = "invoking"
    /\ question[t].variant = "numeric"
    /\ \E text \in texts :
          FinishForecast(t, text,
              ExtractNumericDistribution(text, question[t]))

\* ---------------------------------------------------------- specifications
\* the question of task t when several questions run concurrently
ConcurrentQuestion(t) ==
    CASE t % 3 = 1 -> BinaryQuestion
      [] t % 3 = 2 -> MultipleChoiceQuestion(<<"Red", "Green", "Blue">>)
      [] OTHER -> NumericQuestion(FALSE, TRUE)

\* forecast_questions: every question starts as a task calling run_research
Init ==
    /\ env \in SUBSET Credentials
    /\ value = MaxConcurrentQuestions
    /\ waiters = <<>>
    /\ pc = [t \in Tasks |-> "start"]
    /\ calls = [t \in Tasks |-> <<>>]
    /\ raised = {}
    /\ research = [t \in Tasks |-> NoResult]
    /\ log = [t \in Tasks |-> <<>>]
    /\ question = [t \in Tasks |-> ConcurrentQuestion(t)]
    /\ prompt = [t \in Tasks |-> <<>>]
    /\ reasoning = [t \in Tasks |-> <<>>]
    /\ result = [t \in Tasks |-> <<>>]

Next ==
    \E t \in Tasks :
        \/ RunResearch(t)
        \/ WaitForSlot(t)
        \/ ResumeWithSlot(t)
        \/ ProviderReturns(t)
        \/ ProviderRaises(t)
        \/ StartForecast(t)
        \/ ModelRaises(t)
        \/ RunForecastOnBinary(t, SampleTexts(question[t]))
        \/ RunForecastOnMultipleChoice(t, SampleTexts(question[t]))
        \/ RunForecastOnNumeric(t, SampleTexts(question[t]))

Spec == Init /\ [][Next]_vars

\* The questions' tasks at the gate only: run_research up to its return,
\* with some provider configured or none.  A provider call ends (it returns
\* or raises) and the event loop runs every task that is ready.
InitGate ==
    /\ Init
    /\ env \in {{}, {"EXA_API_KEY"}, {"OPENROUTER_API_KEY"}}

NextGate ==
    \E t \in Tasks :
        \/ RunResearch(t)
        \/ WaitForSlot(t)
        \/ ResumeWithSlot(t)
        \/ ProviderReturns(t)
        \/ ProviderRaises(t)

SpecGate ==
    /\ InitGate
    /\ [][NextGate]_vars
    /\ \A t \in Tasks :
          /\ WF_vars(RunResearch(t) \/ WaitForSlot(t))
          /\ WF_vars(ResumeWithSlot(t))
          /\ WF_vars(ProviderReturns(t) \/ ProviderRaises(t))

\* One question of any variant, no research provider configured: task 1 has
\* returned from run_research with the empty string; every text within the
\* bounds may come back from the model.
InitForecast ==
    /\ env = {}
    /\ value = MaxConcurrentQuestions
    /\ waiters = <<>>
    /\ pc = [t \in Tasks |-> IF t = 1 THEN "researched" ELSE "start"]
    /\ calls = [t \in Tasks |-> <<>>]
    /\ raised = {}
    /\ research = [t \in Tasks |-> IF t = 1 THEN "" ELSE NoResult]
    /\ log = [t \in Tasks |->
                IF t = 1
                THEN <<[level |-> "warning", what |-> "no research provider",
                        detail |-> <<>>],
                       [level |-> "info", what |-> "research",
                        detail |-> <<"">>]>>
                ELSE <<>>]
    /\ \E q \in Questions :
          question = [t \in Tasks |-> IF t = 1 THEN q ELSE BinaryQuestion]
    /\ prompt = [t \in Tasks |-> <<>>]
    /\ reasoning = [t \in Tasks |-> <<>>]
    /\ result = [t \in Tasks |-> <<>>]

NextForecast ==
    \/ StartForecast(1)
    \/ ModelRaises(1)
    \/ RunForecastOnBinary(1, Texts(question[1]))
    \/ RunForecastOnMultipleChoice(1, Texts(question[1]))
    \/ RunForecastOnNumeric(1, Texts(question[1]))
    \/ \E k \in 0..MaxCurvePoints : RunForecastOnNumeric(1, CurveTexts[k])

SpecForecast == InitForecast /\ [][NextForecast]_vars


\* ------------------------------------------- properties of the research gate
\* tasks inside the `async with` body of run_research
InsideResearch == {t \in Tasks : pc[t] = "calling"}

\* tasks a leaving holder has handed its permit to, not yet resumed
HandedSlot == {t \in Tasks : pc[t] = "woken"}

\* tasks whose forecast model invocation is in flight
InvokingModel == {t \in Tasks : pc[t] = "invoking"}

\* task t has got past the provider selection of run_research
Dispatched(t) == pc[t] \notin {"start", "waiting", "woken"}

\* C1: at every moment at most 2 tasks are inside the critical section of
\* run_research, and while the same two tasks stay inside, a task that has
\* called run_research and is not inside stays outside, suspended on the
\* gate.
C1_AtMostTwoInResearch ==
    /\ [](Cardinality(InsideResearch) <= 2)
    /\ [][\A t \in Tasks :
            (/\ pc[t] \in {"start", "waiting"}
             /\ Cardinality(InsideResearch) = 2
             /\ InsideResearch' = InsideResearch)
            => /\ pc'[t] \in {"start", "waiting"}
               /\ pc'[t] # pc[t] => pc'[t] = "waiting"]_vars

\* two tasks inside, a third suspended
C1_Witness ==
    /\ Cardinality(InsideResearch) = 2
    /\ \E t \in Tasks : pc[t] = "waiting"

\* C2: the model invocation of a forecast operation happens while its task
\* holds a concurrency slot, so at most 2 forecast model invocations are in
\* flight and the free permits never exceed 2 less the invoking tasks.
C2_ForecastHoldsSlot ==
    /\ Cardinality(InvokingModel) <= 2
    /\ value <= 2 - Cardinality(InvokingModel)

\* provider p has the credentials it needs
Configured(p) ==
    CASE p = "AskNews" ->
            "ASKNEWS_CLIENT_ID" \in env /\ "ASKNEWS_SECRET" \in env
      [] p = "Exa" -> "EXA_API_KEY" \in env
      [] p = "Perplexity" -> "PERPLEXITY_API_KEY" \in env
      [] p = "OpenRouter" -> "OPENROUTER_API_KEY" \in env

Precedence == <<"AskNews", "Exa", "Perplexity", "OpenRouter">>

\* C3: whatever credentials are present, run_research calls at most one
\* provider; when some provider is configured it calls exactly one, the
\* first configured one in the order AskNews, Exa, Perplexity, OpenRouter,
\* AskNews counting as configured only with both of its credentials.
C3_FirstConfiguredProvider ==
    \A t \in Tasks :
        /\ Len(calls[t]) <= 1
        /\ (Dispatched(t) /\ \E p \in Providers : Configured(p)) =>
              /\ Len(calls[t]) = 1
              /\ \E i \in 1..4 :
                    /\ calls[t][1] = Precedence[i]
                    /\ Configured(Precedence[i])
                    /\ \A j \in 1..(i - 1) : ~Configured(Precedence[j])

\* one AskNews credential alone, Perplexity and OpenRouter configured:
\* Perplexity was called
C3_Witness ==
    /\ env = {"ASKNEWS_CLIENT_ID", "PERPLEXITY_API_KEY", "OPENROUTER_API_KEY"}
    /\ \E t \in Tasks : calls[t] = <<"Perplexity">> /\ pc[t] = "researched"

WarnedNoProvider(t) ==
    \E i \in 1..Len(log[t]) :
        log[t][i].level = "warning" /\ log[t][i].what = "no research provider"

\* C4: with no research provider configured, run_research calls no
\* provider, logs a warning and returns the empty string without raising,
\* and the forecast step can start for that question.
C4_NoProviderEmptyResearch ==
    \A t \in Tasks :
        (Dispatched(t) /\ \A p \in Providers : ~Configured(p)) =>
            /\ calls[t] = <<>>
            /\ WarnedNoProvider(t)
            /\ research[t] = ""
            /\ t \notin raised
            /\ pc[t] # "research_failed"
            /\ pc[t] = "researched" => ENABLED StartForecast(t)

\* no provider configured, and a forecast came back all the same
C4_Witness ==
    /\ \A p \in Providers : ~Configured(p)
    /\ \E t \in Tasks : pc[t] = "done" /\ research[t] = ""

LoggedResearch(t) ==
    \E i \in 1..Len(log[t]) : log[t][i].what = "research"

\* C5: when the call of the selected provider fails, run_research ends in
\* that failure: it has called no second provider, has returned no research
\* text, empty or not, and no forecast is made from it.
C5_ProviderFailurePropagates ==
    \A t \in raised :
        /\ pc[t] = "research_failed"
        /\ Len(calls[t]) = 1
        /\ research[t] = NoResult
        /\ ~LoggedResearch(t)
        /\ result[t] = <<>>

\* the call of Exa failed with Perplexity and OpenRouter configured too
C5_Witness ==
    /\ {"EXA_API_KEY", "PERPLEXITY_API_KEY", "OPENROUTER_API_KEY"} \subseteq env
    /\ \E t \in raised : calls[t] = <<"Exa">>

\* ------------------------------------ properties of the forecast operations
\* the last token of a text is tok
EndsWith(text, tok) == text # <<>> /\ text[Len(text)] = tok

\* the returned prediction of task t
Returned(t) == result[t][1]

\* C6: for a model text ending in `Probability: 0%` or `Probability: 100%`
\* the probability _run_forecast_on_binary returns is never exactly 0.0 or
\* 1.0.
C6_NeverExactlyZeroOrOne ==
    \A t \in Tasks :
        (/\ question[t].variant = "binary"
         /\ pc[t] = "done"
         /\ EndsWith(reasoning[t], Pct(0)) \/ EndsWith(reasoning[t], Pct(100)))
        => /\ Returned(t).prediction_value # [n |-> 0, d |-> 1]
           /\ Returned(t).prediction_value # [n |-> 1, d |-> 1]

LoggedForecast(t) ==
    \E i \in 1..Len(log[t]) : log[t][i].what = "forecast"

\* the text gives the extractor of the variant nothing to build from: no
\* percentage, no option line, fewer than 2 percentile lines
NothingToExtract(q, text) ==
    CASE q.variant = "binary" ->
            \A i \in 1..Len(text) : text[i].kind \notin {"pct", "opt"}
      [] q.variant = "multiple_choice" ->
            \A i \in 1..Len(text) : text[i].kind # "opt"
      [] q.variant = "numeric" ->
            Cardinality({i \in 1..Len(text) : text[i].kind = "ptile"}) < 2

\* C7: no forecast operation returns a fabricated prediction: when the
\* model invocation fails, or the model text holds no percentage (binary),
\* no option line (multiple choice) or fewer than 2 percentile points
\* (numeric), the operation ends in an error and no ReasonedPrediction is
\* constructed or logged.
C7_NoFabricatedPrediction ==
    \A t \in Tasks :
        /\ pc[t] \in {"invoke_failed", "extract_failed"} =>
              result[t] = <<>> /\ ~LoggedForecast(t)
        /\ (/\ pc[t] \in {"done", "extract_failed"}
            /\ NothingToExtract(question[t], reasoning[t]))
           => pc[t] = "extract_failed"
        /\ result[t] # <<>> => pc[t] = "done"

\* a numeric forecast failed on a text with a single percentile line
C7_Witness ==
    /\ question[1].variant = "numeric"
    /\ pc[1] = "extract_failed"
    /\ reasoning[1] = <<Ptile(50, 5)>>
    /\ result[1] = <<>>

\* what the extractor of the question's variant makes of the text, as the
\* three operations call it
ExtractorValue(q, text) ==
    CASE q.variant = "binary" ->
            ExtractLastPercentageValue(text, Rat(1, 1), Rat(0, 1)).value
      [] q.variant = "numeric" ->
            ExtractNumericDistribution(text, q).value

\* C8: a successful forecast returns as reasoning exactly the text the
\* model returned and as prediction_value exactly what the extractor made
\* of that text; a binary question with empty research and a text ending
\* `Probability: 37%` yields 0.37.
C8_PredictionAndFullReasoning ==
    \A t \in Tasks :
        pc[t] = "done" =>
            /\ Len(result[t]) = 1
            /\ Returned(t).reasoning = reasoning[t]
            /\ question[t].variant \in {"binary", "numeric"} =>
                  Returned(t).prediction_value
                      = ExtractorValue(question[t], reasoning[t])
            /\ question[t].variant = "multiple_choice" =>
                  \E lenient \in BOOLEAN :
                      LET e == ExtractOptionList(reasoning[t],
                                                 question[t].options, lenient)
                      IN  e.ok /\ Returned(t).prediction_value = e.value
            /\ (/\ question[t].variant = "binary"
                /\ research[t] = ""
                /\ EndsWith(reasoning[t], Pct(37)))
               => Returned(t).prediction_value = [n |-> 37, d |-> 100]

\* the end-to-end scenario: empty research, analysis, `Probability: 37%`
C8_Witness ==
    /\ question[1].variant = "binary"
    /\ research[1] = ""
    /\ pc[1] = "done"
    /\ reasoning[1] = <<Word, Pct(37)>>
    /\ Returned(1) = [prediction_value |-> [n |-> 37, d |-> 100],
                      reasoning |-> <<Word, Pct(37)>>]

\* C9: the Percentage Extractor's result is decided by the last
\* `<number>%` statement of the text: that number over 100, clamped to the
\* range the caller gives ([0, 1] here), never an earlier one; `30%` and
\* later `Probability: 62%` yield 0.62.
C9_LastPercentageWins ==
    \A t \in Tasks :
        (question[t].variant = "binary" /\ pc[t] = "done") =>
            /\ \E i \in 1..Len(reasoning[t]) :
                  /\ reasoning[t][i].kind = "pct"
                  /\ \A j \in (i + 1)..Len(reasoning[t]) :
                        reasoning[t][j].kind # "pct"
                  /\ LET n == reasoning[t][i].num IN
                     /\ Returned(t).prediction_value.n
                            * (IF n > 100 THEN 1 ELSE 100)
                        = (IF n > 100 THEN 1 ELSE n)
                            * Returned(t).prediction_value.d
            /\ reasoning[t] = <<Pct(30), Word, Pct(62)>> =>
                  Returned(t).prediction_value = [n |-> 31, d |-> 50]

\* `30%`, words, `Probability: 62%`: 0.62
C9_Witness ==
    /\ question[1].variant = "binary"
    /\ pc[1] = "done"
    /\ reasoning[1] = <<Pct(30), Word, Pct(62)>>
    /\ Returned(1).prediction_value = [n |-> 31, d |-> 50]

\* C10: the PredictedOptionList returned for a multiple-choice question
\* has exactly one entry per option of the question, in the order of
\* question.options, whatever the order of the options in the model text.
C10_OneEntryPerOptionInOrder ==
    \A t \in Tasks :
        (question[t].variant = "multiple_choice" /\ pc[t] = "done") =>
            LET list == Returned(t).prediction_value IN
            /\ DOMAIN list = 1..Len(question[t].options)
            /\ \A i \in DOMAIN list :
                  list[i].option_name = question[t].options[i]

\* the text lists Blue, Red, Green; the list comes back Red, Green, Blue
C10_Witness ==
    /\ question[1].options = <<"Red", "Green", "Blue">>
    /\ pc[1] = "done"
    /\ reasoning[1] = <<Opt("Blue", 50), Opt("Red", 30), Opt("Green", 20)>>
    /\ Returned(1).prediction_value =
          <<[option_name |-> "Red", probability |-> [n |-> 3, d |-> 10]],
            [option_name |-> "Green", probability |-> [n |-> 1, d |-> 5]],
            [option_name |-> "Blue", probability |-> [n |-> 1, d |-> 2]]>>

\* some option of the question is named by an option line of the text
SomeOptionMatched(q, text) ==
    \E i \in 1..Len(q.options), j \in 1..Len(text) :
        /\ text[j].kind = "opt"
        /\ NormalizeLabel(text[j].label) = NormalizeLabel(q.options[i])

\* the fraction x is within 1e-6 of 1
WithinTolerancePpm(x) ==
    /\ (x.n - x.d) * 1000000 <= x.d
    /\ (x.d - x.n) * 1000000 <= x.d

\* C11: every PredictedOptionList the Option-List Extractor returns for a
\* text with at least one matched option has probabilities summing to 1.0
\* within 1e-6 and, at once, no probability below the floor 0.001: the
\* renormalisation after flooring leaves no floored option under the floor.
C11_SumToOneAndFloorKept ==
    \A t \in Tasks :
        (/\ question[t].variant = "multiple_choice"
         /\ pc[t] = "done"
         /\ SomeOptionMatched(question[t], reasoning[t]))
        => LET list == Returned(t).prediction_value IN
           /\ WithinTolerancePpm(
                  RatSum([i \in DOMAIN list |-> list[i].probability]))
           /\ \A i \in DOMAIN list :
                  list[i].probability.n * 1000 >= list[i].probability.d

\* the well-formed percentile lines of a text
PercentileLines(text) == {j \in 1..Len(text) : text[j].kind = "ptile"}

\* no percentile is declared by two lines of the text
DeclaredOnce(text) ==
    \A i, j \in PercentileLines(text) : i # j => text[i].p # text[j].p

\* the greatest value the text declares at a percentile up to q
GreatestUpTo(text, q) ==
    LET vs == {text[j].num : j \in {k \in PercentileLines(text) :
                                        text[k].p <= q}}
    IN  CHOOSE v \in vs : \A w \in vs : w <= v

\* C12: the values of every NumericDistribution the Percentile Extractor
\* returns are non-decreasing as the percentile increases: every declared
\* percentile is kept, a value lower than its predecessor is raised to the
\* predecessor's value, and the clipping to closed bounds keeps the order;
\* {10:5, 20:3, 50:10, 90:8} becomes {10:5, 20:5, 50:10, 90:10}.
C12_PercentilesNonDecreasing ==
    \A t \in Tasks :
        (question[t].variant = "numeric" /\ pc[t] = "done") =>
            LET q == question[t]
                text == reasoning[t]
                pts == Returned(t).prediction_value.declared_percentiles
            IN
            /\ {pts[i].percentile : i \in DOMAIN pts}
                   = {text[j].p : j \in PercentileLines(text)}
            /\ \A i \in 1..(Len(pts) - 1) :
                  /\ pts[i].percentile < pts[i + 1].percentile
                  /\ pts[i].value <= pts[i + 1].value
            /\ DeclaredOnce(text) =>
                  \A i \in DOMAIN pts :
                      LET m == GreatestUpTo(text, pts[i].percentile) IN
                      pts[i].value =
                          IF ~q.open_upper_bound /\ m > q.upper_bound
                          THEN q.upper_bound
                          ELSE IF ~q.open_lower_bound /\ m < q.lower_bound
                          THEN q.lower_bound
                          ELSE m
            /\ (/\ q.open_upper_bound /\ q.open_lower_bound
                /\ text = <<Ptile(10, 5), Ptile(20, 3),
                            Ptile(50, 10), Ptile(90, 8)>>)
               => pts = <<[percentile |-> 10, value |-> 5],
                          [percentile |-> 20, value |-> 5],
                          [percentile |-> 50, value |-> 10],
                          [percentile |-> 90, value |-> 10]>>

\* {10:5, 20:3, 50:10, 90:8} came back as {10:5, 20:5, 50:10, 90:10}
C12_Witness ==
    /\ question[1] = NumericQuestion(TRUE, TRUE)
    /\ pc[1] = "done"
    /\ reasoning[1] = <<Ptile(10, 5), Ptile(20, 3),
                        Ptile(50, 10), Ptile(90, 8)>>
    /\ Returned(1).prediction_value.declared_percentiles =
          <<[percentile |-> 10, value |-> 5],
            [percentile |-> 20, value |-> 5],
            [percentile |-> 50, value |-> 10],
            [percentile |-> 90, value |-> 10]>>

\* the tasks in the queue w
Queued(w) == {w[i] : i \in 1..Len(w)}

\* what is left of the queue after this step, before a newcomer is added
RestOfQueue ==
    IF Queued(waiters) \subseteq Queued(waiters') THEN waiters
    ELSE Tail(waiters)

\* C13: the gate is fair first-come-first-served.  A task blocked on the
\* gate enters the critical section of run_research only from the front of
\* the queue, the queue keeps the order in which the tasks started waiting
\* (a newcomer joins at the back), a task that arrives while others are
\* queued does not enter before them, and, given that every holder of a
\* slot leaves the critical section, every waiting task enters it.
C13_FairFirstComeFirstServed ==
    /\ [][/\ (\A t \in Queued(waiters) \ Queued(waiters') :
                  t = Head(waiters) /\ Dispatched(t)')
           /\ (\/ waiters' = RestOfQueue
               \/ \E t \in Tasks : /\ pc[t] = "start"
                                    /\ pc'[t] = "waiting"
                                    /\ waiters' = Append(RestOfQueue, t))
           /\ (\A t \in Tasks :
                  (pc[t] = "start" /\ waiters # <<>>)
                  => pc'[t] \in {"start", "waiting"})]_vars
    /\ [](\A t \in Tasks :
             pc[t] \in {"waiting", "woken"} <=> t \in Queued(waiters))
    /\ \A t \in Tasks : (pc[t] = "waiting") ~> Dispatched(t)

\* two tasks are queued: the one that started waiting first has been handed
\* a slot, the other still waits
C13_Witness ==
    /\ Len(waiters) >= 2
    /\ pc[waiters[1]] = "woken"
    /\ pc[waiters[2]] = "waiting"

\* C14, as stated: in every reachable state the free permits and the tasks
\* inside the critical section of run_research add up to 2.
C14_FreePlusInsideIsTwo ==
    value + Cardinality(InsideResearch) = MaxConcurrentQuestions

\* C14, amended: every exit path of run_research (the provider call
\* returns, no provider is configured, the provider call raises) releases
\* the slot exactly once.  In every reachable state the free permits, the
\* tasks inside the critical section and the tasks a leaving holder has
\* handed its permit to and that have not resumed yet add up to 2; a task
\* that has left run_research is none of these, and once nobody is inside
\* or handed a permit both permits are free.
C14_SlotReleasedExactlyOnce ==
    /\ value >= 0
    /\ value + Cardinality(InsideResearch) + Cardinality(HandedSlot)
           = MaxConcurrentQuestions
    /\ (InsideResearch = {} /\ HandedSlot = {})
           => value = MaxConcurrentQuestions
    /\ HandedSlot \subseteq Queued(waiters)

\* a provider call has raised and both permits are free again
C14_Witness ==
    /\ \E t \in raised : pc[t] = "research_failed"
    /\ InsideResearch = {}
    /\ HandedSlot = {}
    /\ value = MaxConcurrentQuestions

\* C15: _create_upper_and_lower_bound_messages returns the pair (upper
\* message, lower message) in that order, each side decided on its own: the
\* upper message is empty exactly when open_upper_bound is true and else
\* says the outcome can not be higher than upper_bound, the lower message is
\* empty exactly when open_lower_bound is true and else says the outcome can
\* not be lower than lower_bound; _run_forecast_on_numeric puts each under
\* its own name into the prompt, the lower message before the upper one.
C15_BoundMessagesNotSwapped ==
    \A t \in Tasks :
        (question[t].variant = "numeric" /\ prompt[t] # <<>>) =>
            LET q == question[t]
                pair == CreateUpperAndLowerBoundMessages(q)
                higher == "The outcome can not be higher than "
                             \o ToString(q.upper_bound) \o "."
                lower == "The outcome can not be lower than "
                            \o ToString(q.lower_bound) \o "."
            IN
            /\ (pair[1] = "") <=> q.open_upper_bound
            /\ ~q.open_upper_bound => pair[1] = higher
            /\ (pair[2] = "") <=> q.open_lower_bound
            /\ ~q.open_lower_bound => pair[2] = lower
            /\ prompt[t] = <<research[t], pair[2], pair[1]>>
            /\ prompt[t][2] \in {"", lower}
            /\ prompt[t][3] \in {"", higher}

\* a numeric question closed above and open below: only the upper message
\* is in the prompt, in the upper message's place
C15_Witness ==
    /\ question[1] = NumericQuestion(FALSE, TRUE)
    /\ pc[1] = "invoking"
    /\ prompt[1] = <<"", "", "The outcome can not be higher than 100.">>
====
